---------------------------- MODULE Spec2Model ----------------------------
(***************************************************************************)
(* Credential resolution of the Tanzu AI Services provider                 *)
(* (crates/goose/src/providers/tanzu.rs).                                  *)
(*                                                                         *)
(* Strings are sequences of characters, so that the suffix arithmetic of   *)
(* strip_openai_suffix and from_env is computed character by character.    *)
(* A JSON value (serde_json::Value) is a tagged record; an object is a     *)
(* record of its keys, a key that the document does not carry holding the  *)
(* JAbsent marker.  Option and Result are tagged records too.              *)
(***************************************************************************)
EXTENDS Integers, Sequences, FiniteSets, TLC

VARIABLES
    config,     \* Config::global(): the TANZU_AI_* parameters and the secret
    environ,    \* std::env: VCAP_SERVICES and TANZU_AI_BINDING_NAME
    input,      \* the value a caller hands to a helper that takes one
    call        \* the last operation run: its name, arguments and return value

vars == <<config, environ, input, call>>

---------------------------------------------------------------------------
(* Bounds *)

\* Longest input string, counted in pieces of Pieces.
MaxParts == 2

\* Longest genai array of a VCAP_SERVICES document.
MaxBindings == 2

---------------------------------------------------------------------------
(* Option<T> and Result<T, E> *)

None == [some |-> FALSE]

Some(x) == [some |-> TRUE, v |-> x]

Ok(x) == [ok |-> TRUE, v |-> x]

Err(e) == [ok |-> FALSE, e |-> e]

Option(S) == {None} \cup {Some(x) : x \in S}

---------------------------------------------------------------------------
(* Strings *)

OPENAI == <<"/", "o", "p", "e", "n", "a", "i">>

SLASH == <<"/">>

EndsWith(s, pat) ==
    /\ Len(pat) <= Len(s)
    /\ SubSeq(s, Len(s) - Len(pat) + 1, Len(s)) = pat

\* str::trim_end_matches: removes the pattern from the end repeatedly.
RECURSIVE trim_end_matches(_, _)
trim_end_matches(s, pat) ==
    IF Len(pat) > 0 /\ EndsWith(s, pat)
    THEN trim_end_matches(SubSeq(s, 1, Len(s) - Len(pat)), pat)
    ELSE s

strip_openai_suffix(api_base) ==
    trim_end_matches(trim_end_matches(api_base, SLASH), OPENAI)

\* Faulty variant: the base is used as it is, trailing slash and all.
host_of_no_trim(endpoint_base) == endpoint_base \o OPENAI

\* from_env: format!("{}/openai", creds.endpoint_base.trim_end_matches('/'))
host_of(endpoint_base) ==
    trim_end_matches(endpoint_base, SLASH) \o OPENAI

\* The input strings: up to MaxParts pieces, each a character, a slash or the
\* suffix itself.
Pieces == {<<"h">>, SLASH, OPENAI}

RECURSIVE Flatten(_)
Flatten(ps) ==
    IF ps = <<>> THEN <<>> ELSE Head(ps) \o Flatten(Tail(ps))

Strs == {Flatten(ps) : ps \in UNION {[1..n -> Pieces] : n \in 0..MaxParts}}

---------------------------------------------------------------------------
(* serde_json::Value *)

JAbsent == [t |-> "absent"]

JNull == [t |-> "null"]

JNum == [t |-> "num"]

JStr(s) == [t |-> "str", s |-> s]

JArr(a) == [t |-> "arr", a |-> a]

JObj(o) == [t |-> "obj", o |-> o]

\* Value::get(key): the member of an object, None on anything else.
get(v, key) ==
    IF v.t = "obj" /\ key \in DOMAIN v.o /\ v.o[key].t # "absent"
    THEN Some(v.o[key])
    ELSE None

as_str(v) == IF v.t = "str" THEN Some(v.s) ELSE None

\* Faulty variant: a lone object is taken for an array of one element.
as_array_lenient(v) ==
    IF v.t = "arr" THEN Some(v.a)
    ELSE IF v.t = "obj" THEN Some(<<v>>) ELSE None

as_array(v) == IF v.t = "arr" THEN Some(v.a) ELSE None

\* Faulty variant: the syntax error is not noticed.
from_str_lenient(raw) == Some(raw.text)

\* serde_json::from_str(..).ok(): a document is the JSON tree its text spells
\* and whether the text is well-formed JSON.
from_str(raw) == IF raw.wf THEN Some(raw.text) ELSE None

\* Option<&Value>.and_then(|v| v.as_str()).map(String::from)
opt_str(o) == IF o.some THEN as_str(o.v) ELSE None

---------------------------------------------------------------------------
(* The provider's code *)

TanzuCredentials(endpoint_base, api_key, config_url, model_name) ==
    [endpoint_base |-> endpoint_base, api_key |-> api_key,
     config_url |-> config_url, model_name |-> model_name]

\* Faulty variant: the legacy top-level fields win over the endpoint block.
parse_binding_credentials_legacy_first(creds) ==
    LET api_base == opt_str(get(creds, "api_base"))
        api_key  == opt_str(get(creds, "api_key"))
        endpoint == get(creds, "endpoint")
    IN  IF api_base.some /\ api_key.some
        THEN Some(TanzuCredentials(strip_openai_suffix(api_base.v), api_key.v,
                                   None, opt_str(get(creds, "model_name"))))
        ELSE IF endpoint.some
                /\ opt_str(get(endpoint.v, "api_base")).some
                /\ opt_str(get(endpoint.v, "api_key")).some
        THEN Some(TanzuCredentials(opt_str(get(endpoint.v, "api_base")).v,
                                   opt_str(get(endpoint.v, "api_key")).v,
                                   opt_str(get(endpoint.v, "config_url")),
                                   opt_str(get(creds, "model_name"))))
        ELSE None

\* Faulty variant: an endpoint block without its two strings gives way to
\* the legacy top-level fields.
parse_binding_credentials_fallback(creds) ==
    LET endpoint == get(creds, "endpoint")
        api_base == opt_str(get(creds, "api_base"))
        api_key  == opt_str(get(creds, "api_key"))
    IN  IF endpoint.some
           /\ opt_str(get(endpoint.v, "api_base")).some
           /\ opt_str(get(endpoint.v, "api_key")).some
        THEN Some(TanzuCredentials(opt_str(get(endpoint.v, "api_base")).v,
                                   opt_str(get(endpoint.v, "api_key")).v,
                                   opt_str(get(endpoint.v, "config_url")),
                                   opt_str(get(creds, "model_name"))))
        ELSE IF api_base.some /\ api_key.some
        THEN Some(TanzuCredentials(strip_openai_suffix(api_base.v), api_key.v,
                                   None, opt_str(get(creds, "model_name"))))
        ELSE None

parse_binding_credentials(creds) ==
    LET endpoint == get(creds, "endpoint")
    IN  IF endpoint.some
        THEN LET endpoint_base == opt_str(get(endpoint.v, "api_base"))
                 api_key       == opt_str(get(endpoint.v, "api_key"))
                 config_url    == opt_str(get(endpoint.v, "config_url"))
                 model_name    == opt_str(get(creds, "model_name"))
             IN  IF ~endpoint_base.some THEN None
                 ELSE IF ~api_key.some THEN None
                 ELSE Some(TanzuCredentials(endpoint_base.v, api_key.v,
                                            config_url, model_name))
        ELSE LET api_base   == opt_str(get(creds, "api_base"))
                 api_key    == opt_str(get(creds, "api_key"))
                 model_name == opt_str(get(creds, "model_name"))
             IN  IF ~api_base.some THEN None
                 ELSE IF ~api_key.some THEN None
                 ELSE Some(TanzuCredentials(strip_openai_suffix(api_base.v),
                                            api_key.v, None, model_name))

\* genai_bindings.iter().find(|b| b.name == name): the first match.
RECURSIVE find_binding(_, _)
find_binding(bindings, name) ==
    IF bindings = <<>> THEN None
    ELSE IF opt_str(get(Head(bindings), "name")) = Some(name)
         THEN Some(Head(bindings))
         ELSE find_binding(Tail(bindings), name)

first(bindings) == IF bindings = <<>> THEN None ELSE Some(Head(bindings))

\* Faulty variant: the first binding stands in when the name matches none.
select_binding_fallback(bindings, binding_name) ==
    IF binding_name.some /\ find_binding(bindings, binding_name.v).some
    THEN find_binding(bindings, binding_name.v)
    ELSE first(bindings)

select_binding(bindings, binding_name) ==
    IF binding_name.some
    THEN find_binding(bindings, binding_name.v)
    ELSE first(bindings)

\* Faulty variant: the bindings the rule admits are tried one after another
\* until the credentials of one parse.
RECURSIVE first_parsable(_, _)
first_parsable(bindings, binding_name) ==
    IF bindings = <<>> THEN None
    ELSE LET b     == Head(bindings)
             creds == get(b, "credentials")
             named == binding_name.some =>
                          opt_str(get(b, "name")) = Some(binding_name.v)
         IN  IF named /\ creds.some /\ parse_binding_credentials(creds.v).some
             THEN parse_binding_credentials(creds.v)
             ELSE first_parsable(Tail(bindings), binding_name)

parse_vcap_services_any(vcap_json, env) ==
    LET vcap == from_str(vcap_json)
    IN  IF ~vcap.some THEN None
        ELSE LET genai == get(vcap.v, "genai")
        IN  IF ~genai.some THEN None
        ELSE LET genai_bindings == as_array(genai.v)
        IN  IF ~genai_bindings.some THEN None
        ELSE first_parsable(genai_bindings.v, env.TANZU_AI_BINDING_NAME)

parse_vcap_services(vcap_json, env) ==
    LET vcap == from_str(vcap_json)
    IN  IF ~vcap.some THEN None
        ELSE LET genai == get(vcap.v, "genai")
        IN  IF ~genai.some THEN None
        ELSE LET genai_bindings == as_array(genai.v)
        IN  IF ~genai_bindings.some THEN None
        ELSE LET binding == select_binding(genai_bindings.v,
                                           env.TANZU_AI_BINDING_NAME)
        IN  IF ~binding.some THEN None
        ELSE LET creds == get(binding.v, "credentials")
        IN  IF ~creds.some THEN None
        ELSE parse_binding_credentials(creds.v)

\* The message of the anyhow::bail! of resolve_credentials, word by word.
NOT_FOUND ==
    <<"Tanzu", "AI", "Services", "credentials", "not", "found", ".",
      "Set", "TANZU_AI_ENDPOINT", "and", "TANZU_AI_API_KEY", ",",
      "or", "run", "on", "Cloud", "Foundry", "with", "a", "bound", "genai",
      "service", "instance", ".">>

\* Faulty variant: the catalog is consulted before the explicit parameters.
resolve_credentials_catalog_first(cfg, env) ==
    IF env.VCAP_SERVICES.some
       /\ parse_vcap_services(env.VCAP_SERVICES.v, env).some
    THEN Ok(parse_vcap_services(env.VCAP_SERVICES.v, env).v)
    ELSE IF cfg.TANZU_AI_ENDPOINT.some /\ cfg.TANZU_AI_API_KEY.some
    THEN Ok(TanzuCredentials(cfg.TANZU_AI_ENDPOINT.v, cfg.TANZU_AI_API_KEY.v,
                             cfg.TANZU_AI_CONFIG_URL, cfg.TANZU_AI_MODEL_NAME))
    ELSE Err(NOT_FOUND)

\* Faulty variant: a lone explicit parameter fails at once.
resolve_credentials_fail_fast(cfg, env) ==
    IF cfg.TANZU_AI_ENDPOINT.some /\ cfg.TANZU_AI_API_KEY.some
    THEN Ok(TanzuCredentials(cfg.TANZU_AI_ENDPOINT.v, cfg.TANZU_AI_API_KEY.v,
                             cfg.TANZU_AI_CONFIG_URL, cfg.TANZU_AI_MODEL_NAME))
    ELSE IF cfg.TANZU_AI_ENDPOINT.some \/ cfg.TANZU_AI_API_KEY.some
    THEN Err(NOT_FOUND)
    ELSE IF env.VCAP_SERVICES.some
            /\ parse_vcap_services(env.VCAP_SERVICES.v, env).some
    THEN Ok(parse_vcap_services(env.VCAP_SERVICES.v, env).v)
    ELSE Err(NOT_FOUND)

\* Faulty variant: a catalog that does not parse is reported as such.
resolve_credentials_strict(cfg, env) ==
    IF cfg.TANZU_AI_ENDPOINT.some /\ cfg.TANZU_AI_API_KEY.some
    THEN Ok(TanzuCredentials(cfg.TANZU_AI_ENDPOINT.v, cfg.TANZU_AI_API_KEY.v,
                             cfg.TANZU_AI_CONFIG_URL, cfg.TANZU_AI_MODEL_NAME))
    ELSE IF env.VCAP_SERVICES.some
            /\ parse_vcap_services(env.VCAP_SERVICES.v, env).some
    THEN Ok(parse_vcap_services(env.VCAP_SERVICES.v, env).v)
    ELSE IF env.VCAP_SERVICES.some /\ ~from_str(env.VCAP_SERVICES.v).some
    THEN Err(<<"VCAP_SERVICES", "is", "not", "valid", "JSON">>)
    ELSE Err(NOT_FOUND)

\* Faulty variant: an explicit endpoint without an explicit key is kept and
\* completed with the api_key of the catalog.
resolve_credentials_mixed(cfg, env) ==
    LET endpoint == cfg.TANZU_AI_ENDPOINT
        api_key  == cfg.TANZU_AI_API_KEY
    IN  IF endpoint.some /\ api_key.some
        THEN Ok(TanzuCredentials(endpoint.v, api_key.v,
                                 cfg.TANZU_AI_CONFIG_URL,
                                 cfg.TANZU_AI_MODEL_NAME))
        ELSE IF env.VCAP_SERVICES.some
                /\ parse_vcap_services(env.VCAP_SERVICES.v, env).some
        THEN LET creds == parse_vcap_services(env.VCAP_SERVICES.v, env).v
             IN  Ok(IF endpoint.some
                    THEN [creds EXCEPT !.endpoint_base = endpoint.v]
                    ELSE creds)
        ELSE Err(NOT_FOUND)

resolve_credentials(cfg, env) ==
    LET endpoint == cfg.TANZU_AI_ENDPOINT
        api_key  == cfg.TANZU_AI_API_KEY
    IN  IF endpoint.some /\ api_key.some
        THEN Ok(TanzuCredentials(endpoint.v, api_key.v,
                                 cfg.TANZU_AI_CONFIG_URL,
                                 cfg.TANZU_AI_MODEL_NAME))
        ELSE IF env.VCAP_SERVICES.some
                /\ parse_vcap_services(env.VCAP_SERVICES.v, env).some
        THEN Ok(parse_vcap_services(env.VCAP_SERVICES.v, env).v)
        ELSE Err(NOT_FOUND)

\* from_env up to ApiClient::new: the host and the bearer token handed to it.
from_env_client(cfg, env) ==
    LET creds == resolve_credentials(cfg, env)
    IN  IF ~creds.ok THEN Err(creds.e)
        ELSE Ok([host |-> host_of(creds.v.endpoint_base),
                 bearer |-> creds.v.api_key])

\* struct AdvertisedModel
AdvertisedModel(name, capabilities) ==
    [name |-> name, capabilities |-> capabilities]

UPPERCASE ==
    <<"A", "B", "C", "D", "E", "F", "G", "H", "I", "J", "K", "L", "M",
      "N", "O", "P", "Q", "R", "S", "T", "U", "V", "W", "X", "Y", "Z">>

LOWERCASE ==
    <<"a", "b", "c", "d", "e", "f", "g", "h", "i", "j", "k", "l", "m",
      "n", "o", "p", "q", "r", "s", "t", "u", "v", "w", "x", "y", "z">>

\* u8::to_ascii_lowercase
to_ascii_lowercase(c) ==
    IF \E i \in 1..Len(UPPERCASE) : UPPERCASE[i] = c
    THEN LOWERCASE[CHOOSE i \in 1..Len(UPPERCASE) : UPPERCASE[i] = c]
    ELSE c

\* Faulty variant: the comparison minds the case.
eq_case_sensitive(a, b) == a = b

\* str::eq_ignore_ascii_case
eq_ignore_ascii_case(a, b) ==
    /\ Len(a) = Len(b)
    /\ \A i \in 1..Len(a) :
          to_ascii_lowercase(a[i]) = to_ascii_lowercase(b[i])

\* The closure filter_chat_models hands to any().
is_chat_capability(c) ==
    \/ eq_ignore_ascii_case(c, <<"c", "h", "a", "t">>)
    \/ eq_ignore_ascii_case(c, <<"t", "o", "o", "l", "s">>)
    \/ eq_ignore_ascii_case(
           c, <<"c", "o", "m", "p", "l", "e", "t", "i", "o", "n">>)

RECURSIVE filter_chat_models(_)
filter_chat_models(models) ==
    IF models = <<>> THEN <<>>
    ELSE LET m == Head(models)
         IN  (IF \E i \in 1..Len(m.capabilities) :
                     is_chat_capability(m.capabilities[i])
              THEN <<m.name>>
              ELSE <<>>)
             \o filter_chat_models(Tail(models))

\* A request discover_models sends: client.get(url).bearer_auth(api_key)
Request(url, api_key) == [url |-> url, bearer |-> api_key]

\* format!("{}/openai/v1/models", creds.endpoint_base.trim_end_matches('/'))
models_url(creds) ==
    trim_end_matches(creds.endpoint_base, SLASH)
        \o OPENAI \o <<"/", "v", "1", "/", "m", "o", "d", "e", "l", "s">>

\* Faulty variant: a config request that cannot be sent fails the discovery.
config_step_propagate(reply) ==
    IF ~reply.sent
    THEN Some(Err(<<"send">>))
    ELSE IF reply.success /\ reply.body.parses
            /\ reply.body.advertised_models # <<>>
    THEN Some(Ok(reply.body.advertised_models))
    ELSE None

\* Faulty variant: an empty advertisedModels list is returned as it is.
config_step_accept_empty(reply) ==
    IF reply.sent /\ reply.success /\ reply.body.parses
    THEN Some(Ok(reply.body.advertised_models))
    ELSE None

\* discover_models, the config URL's reply: what the helper returns on it,
\* None when it goes on to the listing endpoint.
config_step(reply) ==
    IF reply.sent
    THEN IF reply.success
         THEN IF reply.body.parses
              THEN IF reply.body.advertised_models # <<>>
                   THEN Some(Ok(reply.body.advertised_models))
                   ELSE None
              ELSE None
         ELSE None
    ELSE None

\* arr.iter().filter_map(|m| Some(AdvertisedModel { name: m.get("id")?.. }))
RECURSIVE listed_models(_)
listed_models(arr) ==
    IF arr = <<>> THEN <<>>
    ELSE LET id == opt_str(get(Head(arr), "id"))
         IN  (IF id.some
              THEN <<AdvertisedModel(id.v, <<<<"C", "H", "A", "T">>>>)>>
              ELSE <<>>)
             \o listed_models(Tail(arr))

\* discover_models, the listing endpoint's reply: its status is not looked
\* at; a request that cannot be sent and a body that is no JSON are errors.
listing_step(reply) ==
    IF ~reply.sent THEN Err(<<"send">>)
    ELSE IF ~reply.body.parses THEN Err(<<"json">>)
    ELSE LET data == get(reply.body.json, "data")
             arr  == IF data.some THEN as_array(data.v) ELSE None
         IN  Ok(IF arr.some THEN listed_models(arr.v) ELSE <<>>)

---------------------------------------------------------------------------
(* The environments the provider is started in *)

KeyE == <<"k", "e">>      \* the explicit TANZU_AI_API_KEY
KeyA == <<"k", "a">>      \* the api_key of an endpoint block
KeyB == <<"k", "b">>      \* the api_key of a legacy binding
CfgUrl == <<"c">>
Model == <<"m">>
NameA == <<"a">>
NameB == <<"b">>

\* Explicit endpoints: plain, with a trailing slash, with the API suffix.
Urls == {<<"h">>, <<"h", "/">>, <<"h">> \o OPENAI}

Configs ==
    [TANZU_AI_ENDPOINT   : Option(Urls),
     TANZU_AI_API_KEY    : Option({KeyE}),
     TANZU_AI_CONFIG_URL : Option({CfgUrl}),
     TANZU_AI_MODEL_NAME : Option({Model})]

NoConfig ==
    [TANZU_AI_ENDPOINT |-> None, TANZU_AI_API_KEY |-> None,
     TANZU_AI_CONFIG_URL |-> None, TANZU_AI_MODEL_NAME |-> None]

\* A binding's credentials object.
Creds(endpoint, api_base, api_key, model_name) ==
    JObj([endpoint |-> endpoint, api_base |-> api_base,
          api_key |-> api_key, model_name |-> model_name])

Endpoint(api_base, api_key, config_url) ==
    JObj([api_base |-> api_base, api_key |-> api_key,
          config_url |-> config_url])

VariantA(base) ==
    Creds(Endpoint(JStr(base), JStr(KeyA), JStr(CfgUrl)),
          JAbsent, JAbsent, JAbsent)

VariantB(api_base) ==
    Creds(JAbsent, JStr(api_base), JStr(KeyB), JStr(Model))

\* Credentials in both schemas at once, each with values of its own.
BothVariants ==
    Creds(Endpoint(JStr(<<"e">>), JStr(KeyA), JStr(CfgUrl)),
          JStr(<<"f">> \o OPENAI), JStr(KeyB), JStr(Model))

\* The credentials of the catalogs of Spec: the two variants, both at once,
\* and an object whose endpoint is null next to usable legacy fields.
CatalogCreds ==
    {JAbsent,
     VariantA(<<"g">>),
     VariantB(<<"g">> \o OPENAI \o SLASH),
     BothVariants,
     Creds(JNull, JStr(<<"g">>), JStr(KeyB), JAbsent)}

Binding(name, credentials) ==
    JObj([name |-> name, credentials |-> credentials])

\* The elements of a genai array: named bindings, and a null, which has
\* neither a name nor credentials.
CatalogBindings ==
    {JNull} \cup
    {Binding(n, c) : n \in {JStr(NameA), JStr(NameB)}, c \in CatalogCreds}

Catalog(genai) == JObj([genai |-> genai])

BindingSeqs(n) == UNION {[1..k -> CatalogBindings] : k \in 0..n}

CatalogTrees ==
    {JNull, Catalog(JAbsent), Catalog(JNum),
     Catalog(Binding(JStr(NameA), VariantA(<<"g">>)))}
    \cup {Catalog(JArr(bs)) : bs \in BindingSeqs(MaxBindings)}

\* VCAP_SERVICES values: the well-formed documents, and two texts with a
\* syntax error in them.
RawDocs ==
    {[wf |-> TRUE, text |-> t] : t \in CatalogTrees}
    \cup {[wf |-> FALSE, text |-> t] :
            t \in {JNull,
                   Catalog(JArr(<<Binding(JStr(NameA), VariantA(<<"g">>))>>))}}

Environs ==
    [VCAP_SERVICES : Option(RawDocs),
     TANZU_AI_BINDING_NAME : Option({NameA, NameB})]

NoEnviron == [VCAP_SERVICES |-> None, TANZU_AI_BINDING_NAME |-> None]

\* The inputs of the binding parser: every combination of a missing, a
\* non-string and a string member, over the strings of Strs.
Member(S) == {JAbsent, JNum} \cup {JStr(x) : x \in S}

Endpoints ==
    {JAbsent, JNull} \cup
    {Endpoint(b, k, c) : b \in Member(Strs), k \in Member({KeyA}),
                         c \in Member({CfgUrl})}

BindingJson ==
    {JNull} \cup
    {Creds(e, b, k, m) : e \in Endpoints, b \in Member(Strs),
                         k \in Member({KeyB}), m \in Member({Model})}

\* The catalogs of SpecHost: one binding, for a base of Strs, in the endpoint
\* schema or in the legacy schema with the suffix, with and without a slash.
Family(base) ==
    {VariantA(base), VariantB(base \o OPENAI),
     VariantB(base \o OPENAI \o SLASH)}

EnvironWith(creds) ==
    [VCAP_SERVICES |->
        Some([wf |-> TRUE,
              text |-> Catalog(JArr(<<Binding(JStr(NameA), creds)>>))]),
     TANZU_AI_BINDING_NAME |-> None]

HostEnvirons == {EnvironWith(c) : c \in UNION {Family(b) : b \in Strs}}

NoInput == [kind |-> "none"]

Inputs ==
    {[kind |-> "json", creds |-> c] : c \in BindingJson}
    \cup {[kind |-> "str", api_base |-> x] : x \in Strs}

\* Longest list of models, in a reply and as an input of the filter.
MaxModels == 2

ModelA == <<"n", "1">>
ModelB == <<"n", "2">>

\* Capability lists: none, a foreign tag, the three chat tags in several
\* casings, a near miss.
TagLists ==
    {<<>>,
     <<<<"E", "M", "B", "E", "D", "D", "I", "N", "G">>>>,
     <<<<"c", "h", "a", "t">>>>,
     <<<<"C", "H", "A", "T">>, <<"T", "O", "O", "L", "S">>>>,
     <<<<"C", "o", "m", "p", "l", "e", "t", "i", "o", "n">>>>,
     <<<<"E", "M", "B", "E", "D", "D", "I", "N", "G">>,
       <<"t", "o", "o", "l", "s">>>>,
     <<<<"c", "h", "a", "t", "s">>>>}

FilterModels ==
    {AdvertisedModel(n, cs) : n \in {ModelA, ModelB}, cs \in TagLists}

SeqsUpTo(S, n) == UNION {[1..k -> S] : k \in 0..n}

\* The credentials discover_models is called with.
DiscoverCreds ==
    {TanzuCredentials(b, KeyA, c, None) :
        b \in {<<"h">>, <<"h", "/">>}, c \in Option({CfgUrl})}

\* A reply: whether the request got through (send() returned Ok), whether
\* the status is a success, and the body.
Reply(sent, success, body) ==
    [sent |-> sent, success |-> success, body |-> body]

NoReply == [sent |-> FALSE, success |-> FALSE, body |-> [parses |-> FALSE]]

\* Bodies of the config URL: no ConfigResponse, or one with its models.
ConfigBodies ==
    {[parses |-> FALSE, advertised_models |-> <<>>]} \cup
    {[parses |-> TRUE, advertised_models |-> ms] :
        ms \in SeqsUpTo({AdvertisedModel(ModelA, <<<<"C", "H", "A", "T">>>>),
                         AdvertisedModel(ModelB, <<>>)}, MaxModels)}

ConfigReplies ==
    {Reply(FALSE, FALSE, [parses |-> FALSE, advertised_models |-> <<>>])}
    \cup {Reply(TRUE, ok, b) : ok \in BOOLEAN, b \in ConfigBodies}

\* Bodies of the listing endpoint: no JSON, or a JSON value with or without
\* a data array of entries with or without a string id.
ListingEntries ==
    {JNull, JObj([id |-> JNum]), JObj([id |-> JStr(ModelA)])}

ListingBodies ==
    {[parses |-> FALSE, json |-> JNull]} \cup
    {[parses |-> TRUE, json |-> j] :
        j \in {JNull, JObj([data |-> JAbsent]), JObj([data |-> JNum])}
              \cup {JObj([data |-> JArr(es)]) :
                      es \in SeqsUpTo(ListingEntries, MaxModels)}}

ListingReplies ==
    {Reply(FALSE, FALSE, [parses |-> FALSE, json |-> JNull])}
    \cup {Reply(TRUE, ok, b) : ok \in BOOLEAN, b \in ListingBodies}

DiscoverInputs ==
    {[kind |-> "creds", creds |-> c] : c \in DiscoverCreds}
    \cup {[kind |-> "models", models |-> ms] :
            ms \in SeqsUpTo(FilterModels, MaxModels)}

NoCall == [op |-> "none"]

---------------------------------------------------------------------------
(* Operations *)

\* Faulty variant: the resolution consumes VCAP_SERVICES.
ResolveCredentials_consuming ==
    /\ call' = [op |-> "resolve_credentials",
                ret |-> resolve_credentials(config, environ)]
    /\ environ' = [environ EXCEPT !.VCAP_SERVICES = None]
    /\ UNCHANGED <<config, input>>

\* resolve_credentials(): reads the configuration and the environment.
ResolveCredentials ==
    /\ call' = [op |-> "resolve_credentials",
                ret |-> resolve_credentials(config, environ)]
    /\ UNCHANGED <<config, environ, input>>

\* parse_vcap_services(&vcap) on the value of VCAP_SERVICES.
ParseVcapServices ==
    /\ environ.VCAP_SERVICES.some
    /\ call' = [op |-> "parse_vcap_services",
                ret |-> parse_vcap_services(environ.VCAP_SERVICES.v, environ)]
    /\ UNCHANGED <<config, environ, input>>

\* from_env(model): the credentials, the host, then ApiClient::new, which
\* may refuse the host.
FromEnv ==
    /\ LET client == from_env_client(config, environ)
       IN  \/ call' = [op |-> "from_env", ret |-> client]
           \/ /\ client.ok
              /\ call' = [op |-> "from_env",
                          ret |-> Err(<<"ApiClient", "::", "new">>)]
    /\ UNCHANGED <<config, environ, input>>

\* parse_binding_credentials(&creds) on a credentials value.
ParseBindingCredentials ==
    /\ input.kind = "json"
    /\ call' = [op |-> "parse_binding_credentials",
                ret |-> parse_binding_credentials(input.creds)]
    /\ UNCHANGED <<config, environ, input>>

\* strip_openai_suffix(api_base) on a string.
StripOpenaiSuffix ==
    /\ input.kind = "str"
    /\ call' = [op |-> "strip_openai_suffix",
                ret |-> strip_openai_suffix(input.api_base)]
    /\ UNCHANGED <<config, environ, input>>

\* filter_chat_models(&models) on a list of models.
FilterChatModels ==
    /\ input.kind = "models"
    /\ call' = [op |-> "filter_chat_models",
                ret |-> filter_chat_models(input.models)]
    /\ UNCHANGED <<config, environ, input>>

\* discover_models(&creds), up to its first await: the request to the config
\* URL if there is one, else the request to the listing endpoint.
DiscoverModels ==
    /\ input.kind = "creds"
    /\ call.op = "discover_models" => call.pc = "done"
    /\ call' = [op |-> "discover_models",
                pc |-> IF input.creds.config_url.some
                       THEN "config" ELSE "listing",
                requests |->
                    IF input.creds.config_url.some
                    THEN <<Request(input.creds.config_url.v,
                                   input.creds.api_key)>>
                    ELSE <<Request(models_url(input.creds),
                                   input.creds.api_key)>>,
                config_reply |-> NoReply,
                listing_reply |-> NoReply,
                ret |-> None]
    /\ UNCHANGED <<config, environ, input>>

\* The config URL's request completes: the helper returns the advertised
\* models, or sends the request to the listing endpoint.
ConfigReply ==
    /\ call.op = "discover_models"
    /\ call.pc = "config"
    /\ \E reply \in ConfigReplies :
          call' = IF config_step(reply).some
                  THEN [call EXCEPT !.pc = "done",
                                    !.config_reply = reply,
                                    !.ret = config_step(reply)]
                  ELSE [call EXCEPT !.pc = "listing",
                                    !.config_reply = reply,
                                    !.requests =
                                        Append(@, Request(
                                            models_url(input.creds),
                                            input.creds.api_key))]
    /\ UNCHANGED <<config, environ, input>>

\* The listing endpoint's request completes: the helper returns.
ListingReply ==
    /\ call.op = "discover_models"
    /\ call.pc = "listing"
    /\ \E reply \in ListingReplies :
          call' = [call EXCEPT !.pc = "done",
                               !.listing_reply = reply,
                               !.ret = Some(listing_step(reply))]
    /\ UNCHANGED <<config, environ, input>>

---------------------------------------------------------------------------
(* Specifications *)

\* Resolution in every environment of Configs and Environs.
Init ==
    /\ config \in Configs
    /\ environ \in Environs
    /\ input = NoInput
    /\ call = NoCall

Next ==
    \/ ResolveCredentials
    \/ ParseVcapServices

Spec == Init /\ [][Next]_vars

\* The binding parser and the suffix stripper on every input of BindingJson
\* and Strs.
InitBinding ==
    /\ config = NoConfig
    /\ environ = NoEnviron
    /\ input \in Inputs
    /\ call = NoCall

NextBinding ==
    \/ ParseBindingCredentials
    \/ StripOpenaiSuffix

SpecBinding == InitBinding /\ [][NextBinding]_vars

\* Provider construction where the catalog holds one binding, of either
\* schema, for one and the same base.
InitHost ==
    /\ config \in Configs
    /\ environ \in HostEnvirons
    /\ input = NoInput
    /\ call = NoCall

NextHost == FromEnv

SpecHost == InitHost /\ [][NextHost]_vars

\* Model discovery and the chat filter, on every reply of ConfigReplies and
\* ListingReplies and every list of FilterModels.
InitDiscover ==
    /\ config = NoConfig
    /\ environ = NoEnviron
    /\ input \in DiscoverInputs
    /\ call = NoCall

NextDiscover ==
    \/ DiscoverModels
    \/ ConfigReply
    \/ ListingReply
    \/ FilterChatModels

SpecDiscover == InitDiscover /\ [][NextDiscover]_vars

---------------------------------------------------------------------------
(* Properties of credential resolution, under Spec *)

Resolved == call.op = "resolve_credentials"

ParsedVcap == call.op = "parse_vcap_services"

\* Both explicit parameters are set / exactly one of them is.
Explicit == config.TANZU_AI_ENDPOINT.some /\ config.TANZU_AI_API_KEY.some

HalfExplicit ==
    config.TANZU_AI_ENDPOINT.some # config.TANZU_AI_API_KEY.some

CatalogYields ==
    /\ environ.VCAP_SERVICES.some
    /\ parse_vcap_services(environ.VCAP_SERVICES.v, environ).some

Mentions(msg, word) == \E i \in 1..Len(msg) : msg[i] = word

\* The shape of the document in VCAP_SERVICES, read off the JSON itself.
Raw == environ.VCAP_SERVICES.v

HasGenai == Raw.text.t = "obj" /\ Raw.text.o.genai.t # "absent"

GenaiArray == HasGenai /\ Raw.text.o.genai.t = "arr"

Genai == Raw.text.o.genai.a

NameIs(b, name) == b.t = "obj" /\ b.o.name = JStr(name)

\* The index of the binding the selection rule names, 0 if it names none.
Selected ==
    LET want == environ.TANZU_AI_BINDING_NAME
        hits == {i \in 1..Len(Genai) : NameIs(Genai[i], want.v)}
    IN  IF want.some
        THEN IF hits = {} THEN 0
             ELSE CHOOSE i \in hits : \A j \in hits : i <= j
        ELSE IF Len(Genai) > 0 THEN 1 ELSE 0

HasCredentials(b) == b.t = "obj" /\ b.o.credentials.t # "absent"

IsStr(v) == v.t = "str"

IsVariantA(c) ==
    /\ c.t = "obj"
    /\ c.o.endpoint.t = "obj"
    /\ IsStr(c.o.endpoint.o.api_base)
    /\ IsStr(c.o.endpoint.o.api_key)

IsVariantB(c) ==
    /\ c.t = "obj"
    /\ c.o.endpoint.t = "absent"
    /\ IsStr(c.o.api_base)
    /\ IsStr(c.o.api_key)

\* C1: every Credentials record resolve_credentials returns, by whichever
\* path, has an endpoint_base ending neither in '/' nor in '/openai'.
C1_EndpointBaseNormalized ==
    (Resolved /\ call.ret.ok) =>
        /\ ~EndsWith(call.ret.v.endpoint_base, SLASH)
        /\ ~EndsWith(call.ret.v.endpoint_base, OPENAI)

\* C2: with both TANZU_AI_ENDPOINT and TANZU_AI_API_KEY set, the result is
\* built from exactly the four configuration values, whatever VCAP_SERVICES
\* and TANZU_AI_BINDING_NAME hold.
C2_ExplicitWins ==
    (Resolved /\ Explicit) =>
        call.ret = Ok([endpoint_base |-> config.TANZU_AI_ENDPOINT.v,
                       api_key       |-> config.TANZU_AI_API_KEY.v,
                       config_url    |-> config.TANZU_AI_CONFIG_URL,
                       model_name    |-> config.TANZU_AI_MODEL_NAME])

\* Resolved from explicit parameters while the catalog holds a usable
\* binding with other credentials.
C2_Witness ==
    /\ Resolved /\ Explicit
    /\ CatalogYields
    /\ environ.TANZU_AI_BINDING_NAME.some
    /\ call.ret.ok
    /\ call.ret.v.api_key = KeyE
    /\ parse_vcap_services(Raw, environ).v.api_key # KeyE

\* C3: with exactly one of the two explicit parameters set, resolution does
\* not fail at once; when the catalog yields credentials they are the result.
C3_PartialFallsThrough ==
    (Resolved /\ HalfExplicit /\ CatalogYields) =>
        /\ call.ret = Ok(parse_vcap_services(Raw, environ).v)
        /\ call.ret.v.api_key \in {KeyA, KeyB}

C3_Witness ==
    /\ Resolved /\ HalfExplicit /\ CatalogYields
    /\ config.TANZU_AI_ENDPOINT.some
    /\ call.ret.ok
    /\ call.ret.v.endpoint_base # config.TANZU_AI_ENDPOINT.v

\* C4: without the full explicit pair and without credentials from the
\* catalog, resolution fails with the configuration error that names both
\* remedies; and no other error is ever returned.
C4_NotFoundError ==
    Resolved =>
        /\ (~Explicit /\ ~CatalogYields) =>
              /\ ~call.ret.ok
              /\ Mentions(call.ret.e, "TANZU_AI_ENDPOINT")
              /\ Mentions(call.ret.e, "TANZU_AI_API_KEY")
              /\ Mentions(call.ret.e, "Cloud")
              /\ Mentions(call.ret.e, "Foundry")
              /\ Mentions(call.ret.e, "genai")
        /\ ~call.ret.ok =>
              /\ call.ret.e = NOT_FOUND
              /\ ~Explicit
              /\ ~CatalogYields

\* The error returned with half the explicit pair set and a catalog that is
\* not JSON.
C4_Witness ==
    /\ Resolved /\ HalfExplicit
    /\ environ.VCAP_SERVICES.some
    /\ ~Raw.wf
    /\ ~call.ret.ok

\* The ways a VCAP_SERVICES value fails to carry credentials: malformed
\* text, no genai key, a genai that is no array, a selected element without
\* credentials, credentials of neither variant.
Mismatched ==
    \/ ~Raw.wf
    \/ ~HasGenai
    \/ ~GenaiArray
    \/ /\ Selected # 0
       /\ \/ ~HasCredentials(Genai[Selected])
          \/ /\ ~IsVariantA(Genai[Selected].o.credentials)
             /\ ~IsVariantB(Genai[Selected].o.credentials)

\* C5: on a malformed or structurally mismatched VCAP_SERVICES,
\* parse_vcap_services returns None, and resolve_credentials returns what it
\* returns with VCAP_SERVICES unset.
C5_MismatchIsAbsence ==
    (environ.VCAP_SERVICES.some /\ Mismatched) =>
        /\ ParsedVcap => call.ret = None
        /\ Resolved =>
              call.ret = resolve_credentials(
                             config, [environ EXCEPT !.VCAP_SERVICES = None])

\* Resolution over a text that is not JSON, though it spells a usable
\* binding, with no explicit pair to fall back on.
C5_Witness ==
    /\ Resolved /\ ~Explicit
    /\ environ.VCAP_SERVICES.some
    /\ ~Raw.wf
    /\ GenaiArray
    /\ Selected # 0
    /\ IsVariantA(Genai[Selected].o.credentials)
    /\ ~call.ret.ok

---------------------------------------------------------------------------
(* Properties of the binding parser, under SpecBinding *)

ParsedBinding == call.op = "parse_binding_credentials"

StrOrNone(v) == IF v.t = "str" THEN Some(v.s) ELSE None

\* C6: for credentials with an endpoint object holding string api_base and
\* api_key, the result takes endpoint_base and api_key from the endpoint
\* verbatim, whatever the top-level api_base, api_key and model_name are;
\* config_url is the endpoint's and model_name the top-level one, if there.
C6_EndpointBlockVerbatim ==
    (ParsedBinding /\ IsVariantA(input.creds)) =>
        call.ret =
            Some([endpoint_base |-> input.creds.o.endpoint.o.api_base.s,
                  api_key       |-> input.creds.o.endpoint.o.api_key.s,
                  config_url    |->
                      StrOrNone(input.creds.o.endpoint.o.config_url),
                  model_name    |-> StrOrNone(input.creds.o.model_name)])

\* An endpoint block with the suffix in its base, next to legacy fields that
\* differ from it.
C6_Witness ==
    /\ ParsedBinding /\ IsVariantA(input.creds)
    /\ IsStr(input.creds.o.api_base)
    /\ IsStr(input.creds.o.api_key)
    /\ input.creds.o.api_base # input.creds.o.endpoint.o.api_base
    /\ EndsWith(input.creds.o.endpoint.o.api_base.s, OPENAI)
    /\ call.ret.some
    /\ call.ret.v.endpoint_base = input.creds.o.endpoint.o.api_base.s

\* Removes one occurrence of pat from the end of s, if there is one.
RemoveTrailing(s, pat) ==
    IF EndsWith(s, pat) THEN SubSeq(s, 1, Len(s) - Len(pat)) ELSE s

\* C7: for legacy credentials (no endpoint, string api_base and api_key) the
\* result has endpoint_base equal to api_base with a trailing '/' removed
\* and then a trailing '/openai' segment removed, no config_url, the api_key
\* verbatim and the top-level model_name if there.
C7_LegacyStripsSuffix ==
    (ParsedBinding /\ IsVariantB(input.creds)) =>
        call.ret =
            Some([endpoint_base |->
                      RemoveTrailing(
                          RemoveTrailing(input.creds.o.api_base.s, SLASH),
                          OPENAI),
                  api_key       |-> input.creds.o.api_key.s,
                  config_url    |-> None,
                  model_name    |-> StrOrNone(input.creds.o.model_name)])

---------------------------------------------------------------------------
(* Properties of binding selection, under Spec *)

\* What the selection rule's element yields.
CredentialsOf(b) ==
    IF HasCredentials(b)
    THEN parse_binding_credentials(b.o.credentials)
    ELSE None

\* C8: with TANZU_AI_BINDING_NAME set, the first genai element of that name
\* is the one parsed, and the result is None if there is none (the first
\* element does not stand in); with it unset, the first element is parsed.
C8_BindingSelection ==
    (ParsedVcap /\ Raw.wf /\ GenaiArray /\ Len(Genai) > 0) =>
        LET want == environ.TANZU_AI_BINDING_NAME
            hits == {i \in 1..Len(Genai) : NameIs(Genai[i], want.v)}
        IN  IF ~want.some
            THEN call.ret = CredentialsOf(Genai[1])
            ELSE IF hits = {}
            THEN call.ret = None
            ELSE \E i \in hits :
                    /\ \A j \in hits : i <= j
                    /\ call.ret = CredentialsOf(Genai[i])

\* The name matches no element while the first element holds usable
\* credentials.
C8_Witness ==
    /\ ParsedVcap /\ Raw.wf /\ GenaiArray
    /\ Len(Genai) = MaxBindings
    /\ environ.TANZU_AI_BINDING_NAME.some
    /\ \A i \in 1..Len(Genai) :
          ~NameIs(Genai[i], environ.TANZU_AI_BINDING_NAME.v)
    /\ CredentialsOf(Genai[1]).some
    /\ call.ret = None

\* C9: a catalog without the genai key, with a genai that is no array, or
\* with an empty genai array yields None, with and without an override.
C9_NoBindingsNoResult ==
    (ParsedVcap /\ Raw.wf
       /\ (~HasGenai \/ ~GenaiArray \/ Len(Genai) = 0)) =>
        call.ret = None

\* An empty genai array, parsed with an override set.
C9_Witness ==
    /\ ParsedVcap /\ Raw.wf /\ GenaiArray
    /\ Len(Genai) = 0
    /\ environ.TANZU_AI_BINDING_NAME.some
    /\ call.ret = None

---------------------------------------------------------------------------
(* Properties of host derivation, under SpecHost *)

\* The host from_env derives when the catalog's one binding holds creds.
HostUnder(creds) == from_env_client(NoConfig, EnvironWith(creds)).v.host

\* The credentials of the catalog's one binding.
BoundCreds == Genai[1].o.credentials

\* C10: a Variant A binding with endpoint.api_base = B and a Variant B
\* binding with api_base = B + '/openai' or B + '/openai/' give from_env the
\* same host, endpoint_base without trailing slash followed by '/openai'.
C10_VariantsConverge ==
    (call.op = "from_env" /\ call.ret.ok /\ ~Explicit) =>
        \A base \in Strs :
            BoundCreds \in Family(base) =>
                /\ \A c \in Family(base) : call.ret.v.host = HostUnder(c)
                /\ call.ret.v.host =
                       trim_end_matches(
                           resolve_credentials(config, environ).v.endpoint_base,
                           SLASH) \o OPENAI

---------------------------------------------------------------------------
(* Properties of the suffix stripper, under SpecBinding and SpecHost *)

Stripped == call.op = "strip_openai_suffix"

\* C11: strip_openai_suffix is idempotent: stripping its own result changes
\* nothing.
C11_StripIdempotent ==
    Stripped => strip_openai_suffix(call.ret) = call.ret

\* s repeated n times.
RECURSIVE Rep(_, _)
Rep(s, n) == IF n = 0 THEN <<>> ELSE s \o Rep(s, n - 1)

\* The api_base of the legacy binding the catalog of SpecHost holds.
LegacyBase == BoundCreds.o.api_base.s

HostFromLegacy ==
    /\ call.op = "from_env"
    /\ call.ret.ok
    /\ ~Explicit
    /\ IsVariantB(BoundCreds)
    /\ (EndsWith(LegacyBase, OPENAI) \/ EndsWith(LegacyBase, OPENAI \o SLASH))

\* C12: for a legacy api_base x ending in '/openai' or '/openai/', the host
\* from_env derives from strip_openai_suffix(x) is x again.
C12_HostInvertsStrip ==
    HostFromLegacy => call.ret.v.host = LegacyBase

\* C12, amended: the host is p + '/openai', where x is p, then slashes, then
\* one or more '/openai', then slashes, p ends in no slash and, if no slash
\* follows it, in no '/openai'.  It is x when x is p + '/openai'.
C12_HostNormalizesLegacyBase ==
    HostFromLegacy =>
        LET x == LegacyBase
            h == call.ret.v.host
            p == SubSeq(h, 1, Len(h) - Len(OPENAI))
        IN  /\ EndsWith(h, OPENAI)
            /\ ~EndsWith(p, SLASH)
            /\ \E k \in 0..Len(x), n \in 1..Len(x), m \in 0..Len(x) :
                  /\ x = p \o Rep(SLASH, k) \o Rep(OPENAI, n) \o Rep(SLASH, m)
                  /\ (k = 0 => ~EndsWith(p, OPENAI))
                  /\ (k = 0 /\ n = 1 /\ m = 0) <=> (h = x)

\* A legacy base with the slash after the suffix: the host is not the base.
C12_Witness ==
    /\ HostFromLegacy
    /\ EndsWith(LegacyBase, <<"h">> \o OPENAI \o SLASH)
    /\ call.ret.v.host # LegacyBase

---------------------------------------------------------------------------
(* Properties of model discovery and of the chat filter, under SpecDiscover *)

Discovering == call.op = "discover_models"

\* The k-th smallest element of a set of numbers.
Kth(Q, k) == CHOOSE i \in Q : Cardinality({j \in Q : j <= i}) = k

ConfigRequest == Request(CfgUrl, KeyA)

\* Both bases of DiscoverCreds, "h" and "h/", have this listing endpoint.
ListingRequest ==
    Request(<<"h", "/", "o", "p", "e", "n", "a", "i",
              "/", "v", "1", "/", "m", "o", "d", "e", "l", "s">>, KeyA)

ListingRequested ==
    \E i \in 1..Len(call.requests) : call.requests[i] = ListingRequest

\* The config URL was asked and its reply was a transport error, a
\* non-success status or a body that is no ConfigResponse.
ConfigFailed ==
    /\ input.creds.config_url.some
    /\ call.pc # "config"
    /\ \/ ~call.config_reply.sent
       \/ ~call.config_reply.success
       \/ ~call.config_reply.body.parses

\* The config URL answered with a non-empty list of advertised models.
Advertised ==
    /\ input.creds.config_url.some
    /\ call.config_reply.sent
    /\ call.config_reply.success
    /\ call.config_reply.body.parses
    /\ Len(call.config_reply.body.advertised_models) > 0

\* What a reply of the listing endpoint amounts to: an error when it did not
\* arrive or is no JSON, else one CHAT model per entry of data with a string
\* id, in order, and none if data is no array.
AnswersListing(ret, reply) ==
    IF ~reply.sent \/ ~reply.body.parses
    THEN ~ret.ok
    ELSE LET json == reply.body.json
             es == IF json.t = "obj" /\ json.o.data.t = "arr"
                   THEN json.o.data.a ELSE <<>>
             Q  == {i \in 1..Len(es) :
                       es[i].t = "obj" /\ es[i].o.id.t = "str"}
         IN  /\ ret.ok
             /\ Len(ret.v) = Cardinality(Q)
             /\ \A k \in 1..Len(ret.v) :
                   ret.v[k] = [name |-> es[Kth(Q, k)].o.id.s,
                               capabilities |-> <<<<"C", "H", "A", "T">>>>]

\* C13: when the request to config_url ends in a transport error, a
\* non-success status or a malformed body, discover_models returns no error
\* for that: it requests the listing endpoint next, and what it returns is
\* what the listing reply amounts to.
C13_ConfigFailureFallsThrough ==
    (Discovering /\ ConfigFailed) =>
        /\ call.requests = <<ConfigRequest, ListingRequest>>
        /\ call.pc = "listing" => call.ret = None
        /\ call.pc = "done" =>
              /\ call.ret.some
              /\ AnswersListing(call.ret.v, call.listing_reply)

\* The config request could not be sent, and the listing gave a model.
C13_Witness ==
    /\ Discovering /\ ConfigFailed
    /\ ~call.config_reply.sent
    /\ call.pc = "done"
    /\ call.ret.v.ok
    /\ Len(call.ret.v.v) > 0

\* C14: every call of discover_models goes on to request the listing
\* endpoint, with or without a config_url and whatever the config URL
\* answered.
C14_AlwaysRequestsListing ==
    (Discovering /\ call.pc = "done") => ListingRequested

\* C14, amended: a call of discover_models requests the listing endpoint
\* unless the config URL answered with a non-empty list of advertised
\* models; then it returns that list and sends no second request.
C14_ListingUnlessAdvertised ==
    Discovering =>
        /\ call.pc = "listing" => ListingRequested
        /\ call.pc = "done" =>
              /\ ListingRequested <=> ~Advertised
              /\ Advertised =>
                    /\ call.requests = <<ConfigRequest>>
                    /\ call.ret =
                           Some(Ok(call.config_reply.body.advertised_models))

\* Returned from the config URL's models, the listing endpoint not asked.
C14_Witness ==
    /\ Discovering
    /\ call.pc = "done"
    /\ Advertised
    /\ ~ListingRequested
    /\ call.ret.v.ok

Filtered == call.op = "filter_chat_models"

\* The tags of TagLists that are 'chat', 'tools' or 'completion' in some
\* casing.
ChatTags ==
    {<<"c", "h", "a", "t">>, <<"C", "H", "A", "T">>,
     <<"t", "o", "o", "l", "s">>, <<"T", "O", "O", "L", "S">>,
     <<"C", "o", "m", "p", "l", "e", "t", "i", "o", "n">>}

Qualifies(m) ==
    \E i \in 1..Len(m.capabilities) : m.capabilities[i] \in ChatTags

---------------------------------------------------------------------------
(* Properties of the resolution as a whole, under Spec and SpecBinding *)

\* C16: resolve_credentials and parse_vcap_services write nothing: a step of
\* either leaves the configuration and the environment as they were, and a
\* resolution that follows a resolution returns what the first returned.
C16_ResolutionWritesNothing ==
    [][call'.op \in {"resolve_credentials", "parse_vcap_services"} =>
          /\ config' = config
          /\ environ' = environ
          /\ (Resolved /\ call'.op = "resolve_credentials") =>
                call'.ret = call.ret]_vars

\* Resolved from the catalog, which a write to the environment would lose.
C16_Witness ==
    /\ Resolved
    /\ ~Explicit
    /\ environ.VCAP_SERVICES.some
    /\ call.ret.ok

EndpointPresent(c) == c.t = "obj" /\ c.o.endpoint.t # "absent"

\* C17: the legacy fields are read only when there is no endpoint key: with
\* an endpoint key whose value lacks a string api_base or a string api_key,
\* null and non-object values included, parse_binding_credentials returns
\* nothing, whatever the top-level api_base and api_key are; and with an
\* endpoint key, whatever it returns has the endpoint's api_base and api_key.
C17_NoLegacyFallback ==
    (ParsedBinding /\ EndpointPresent(input.creds)) =>
        /\ ~IsVariantA(input.creds) => call.ret = None
        /\ call.ret.some =>
              /\ call.ret.v.endpoint_base =
                     input.creds.o.endpoint.o.api_base.s
              /\ call.ret.v.api_key = input.creds.o.endpoint.o.api_key.s

\* A null endpoint next to complete legacy fields: no result.
C17_Witness ==
    /\ ParsedBinding
    /\ input.creds.t = "obj"
    /\ input.creds.o.endpoint = JNull
    /\ IsStr(input.creds.o.api_base)
    /\ IsStr(input.creds.o.api_key)
    /\ call.ret = None

Usable(b) ==
    /\ HasCredentials(b)
    /\ IsVariantA(b.o.credentials) \/ IsVariantB(b.o.credentials)

\* C18: parse_vcap_services looks at one binding only: when the element the
\* selection rule names has no credentials, or credentials of neither schema,
\* the result is None, whatever the later elements of the genai array hold,
\* those of the same name included.
C18_OnlySelectedBinding ==
    (ParsedVcap /\ Raw.wf /\ GenaiArray /\ Selected # 0) =>
        (~Usable(Genai[Selected]) => call.ret = None)

\* The named binding has no credentials, a later binding of that name does.
C18_Witness ==
    /\ ParsedVcap /\ Raw.wf /\ GenaiArray
    /\ environ.TANZU_AI_BINDING_NAME.some
    /\ Len(Genai) = 2
    /\ Selected = 1
    /\ ~HasCredentials(Genai[1])
    /\ NameIs(Genai[2], environ.TANZU_AI_BINDING_NAME.v)
    /\ Usable(Genai[2])
    /\ call.ret = None

IsPrefix(p, s) == Len(p) <= Len(s) /\ SubSeq(s, 1, Len(p)) = p

\* endpoint_base and api_key of r are the two explicit parameters.
FromExplicit(r) ==
    /\ Explicit
    /\ r.endpoint_base = config.TANZU_AI_ENDPOINT.v
    /\ r.api_key = config.TANZU_AI_API_KEY.v

\* endpoint_base and api_key of r are those of the endpoint block of c.
FromEndpointBlock(r, c) ==
    /\ IsVariantA(c)
    /\ r.endpoint_base = c.o.endpoint.o.api_base.s
    /\ r.api_key = c.o.endpoint.o.api_key.s

\* endpoint_base and api_key of r are made of the top-level fields of c.
FromLegacyFields(r, c) ==
    /\ c.t = "obj"
    /\ IsStr(c.o.api_base) /\ IsStr(c.o.api_key)
    /\ IsPrefix(r.endpoint_base, c.o.api_base.s)
    /\ r.api_key = c.o.api_key.s

\* C19: the endpoint_base and the api_key of a result of resolve_credentials
\* have one source: both explicit parameters, or the endpoint block of one
\* binding, or the top-level fields of one binding; no explicit value goes
\* with a catalog value, no top-level api_key with endpoint.api_base.
C19_OneSource ==
    (Resolved /\ call.ret.ok) =>
        \/ FromExplicit(call.ret.v)
        \/ /\ environ.VCAP_SERVICES.some
           /\ Raw.wf
           /\ GenaiArray
           /\ \E i \in 1..Len(Genai) :
                 /\ HasCredentials(Genai[i])
                 /\ \/ FromEndpointBlock(call.ret.v, Genai[i].o.credentials)
                    \/ FromLegacyFields(call.ret.v, Genai[i].o.credentials)

\* One explicit parameter is set and the binding holds both schemas: the
\* result is the endpoint block's on both fields.
C19_Witness ==
    /\ Resolved /\ call.ret.ok
    /\ HalfExplicit
    /\ config.TANZU_AI_ENDPOINT.some
    /\ Genai[1].o.credentials = BothVariants
    /\ call.ret.v.endpoint_base = <<"e">>
    /\ call.ret.v.api_key = KeyA

=============================================================================
